---- MODULE Spec2Model ----
(***************************************************************************)
(* A model of the Azure Notification Hubs client: the connection-string    *)
(* parser (NotificationHubClient::from_connection_string), the SAS token   *)
(* provider (SasTokenProvider::generate_sas_token) and the six client      *)
(* operations, each a request built up to its await on the HTTP transport  *)
(* and a reply interpreted after it.                                       *)
(*                                                                         *)
(* Strings are TLA+ strings, that is sequences of characters: Len, SubSeq  *)
(* and \o act on them as on any sequence.                                  *)
(***************************************************************************)
EXTENDS Integers, Sequences, FiniteSets

VARIABLES client, parsed, now, calls, wire

vars == <<client, parsed, now, calls, wire>>

-----------------------------------------------------------------------------
(* Bounds of the model.                                                    *)

\* Longest connection string tried by the parser, in ';'-separated pieces.
MaxSegments == 4
\* Longest tag list handed to send_tagged_notification.
MaxTags == 3
\* The clock runs from 0 to MaxTime whole seconds.
MaxTime == 1
\* Number of calls that may be in flight on one client at the same time.
MaxCalls == 2

-----------------------------------------------------------------------------
(* Program constants.                                                      *)

\* parts.len() != 3
SegmentCount == 3
\* chrono::Duration::hours(1), in seconds
TokenLifetime == 3600
\* StatusCode::OK and StatusCode::CREATED
StatusOk == 200
StatusCreated == 201
\* const API_VERSION
API_VERSION == "2017-04"

-----------------------------------------------------------------------------
(* str: the operations of Rust's str the code uses.                        *)

CharAt(s, i) == SubSeq(s, i, i)

\* s[from..], from a 1-based position
StrFrom(s, from) == SubSeq(s, from, Len(s))

\* The 1-based positions at which pat occurs in s.
Occurrences(s, pat) ==
    {i \in 1..(Len(s) - Len(pat) + 1) : SubSeq(s, i, i + Len(pat) - 1) = pat}

Min(S) == CHOOSE x \in S : \A y \in S : x <= y

\* str::find: the 1-based position of the first occurrence, 0 for None.
Find(s, pat) == IF Occurrences(s, pat) = {} THEN 0 ELSE Min(Occurrences(s, pat))

\* str::contains
Contains(s, pat) == Occurrences(s, pat) # {}

\* str::split(sep).collect(): the pieces between the separators, in order;
\* a string without separator (the empty one included) is one piece.
RECURSIVE Split(_, _)
Split(s, sep) ==
    LET at == Find(s, sep)
    IN IF at = 0
       THEN <<s>>
       ELSE <<SubSeq(s, 1, at - 1)>> \o Split(StrFrom(s, at + Len(sep)), sep)

\* [&str]::join(sep)
RECURSIVE Join(_, _)
Join(parts, sep) ==
    IF parts = <<>> THEN ""
    ELSE IF Len(parts) = 1 THEN parts[1]
    ELSE parts[1] \o sep \o Join(Tail(parts), sep)

\* str::replace: every non-overlapping occurrence, left to right.
RECURSIVE Replace(_, _, _)
Replace(s, from, to) ==
    LET at == Find(s, from)
    IN IF at = 0
       THEN s
       ELSE SubSeq(s, 1, at - 1) \o to \o Replace(StrFrom(s, at + Len(from)), from, to)

UpperChars == "ABCDEFGHIJKLMNOPQRSTUVWXYZ"
LowerChars == "abcdefghijklmnopqrstuvwxyz"
DigitChars == "0123456789"
HexChars == "0123456789ABCDEF"
\* The printable ASCII characters in code order: 32 (space) to 95 (_), and 97 (a)
\* to 126 (~). A string of the model never holds the grave accent, 96.
AsciiLow == " !\"#$%&'()*+,-./0123456789:;<=>?@ABCDEFGHIJKLMNOPQRSTUVWXYZ[\\]^_"
AsciiHigh == "abcdefghijklmnopqrstuvwxyz{|}~"

\* The characters of a string, and the tables of the character classes.
CharsOf(s) == {CharAt(s, i) : i \in 1..Len(s)}
UpperSet == CharsOf(UpperChars)
LowerSet == CharsOf(LowerChars)
DigitSet == CharsOf(DigitChars)
PrintableSet == CharsOf(AsciiLow) \cup CharsOf(AsciiHigh)

\* char::to_lowercase, on ASCII
LowerTable ==
    [c \in PrintableSet \cup {"\n", "\t"} |->
        IF c \in UpperSet THEN CharAt(LowerChars, Find(UpperChars, c)) ELSE c]

LowerChar(c) == LowerTable[c]

\* str::to_lowercase
RECURSIVE ToLowercase(_)
ToLowercase(s) ==
    IF Len(s) = 0 THEN ""
    ELSE IF Len(s) = 1 THEN LowerChar(s)
    ELSE ToLowercase(SubSeq(s, 1, Len(s) \div 2))
         \o ToLowercase(StrFrom(s, (Len(s) \div 2) + 1))

\* The byte of an ASCII character; a line feed is 10, a tab 9.
ByteTable ==
    [c \in PrintableSet \cup {"\n", "\t"} |->
        IF c = "\n" THEN 10
        ELSE IF c = "\t" THEN 9
        ELSE IF Contains(AsciiLow, c) THEN 31 + Find(AsciiLow, c)
        ELSE 96 + Find(AsciiHigh, c)]

ByteOf(c) == ByteTable[c]

IsUnreserved(c) ==
    c \in UpperSet \cup LowerSet \cup DigitSet \cup {"-", "_", ".", "~"}

\* %XX for every byte
PercentTable ==
    [b \in 0..127 |->
        "%" \o CharAt(HexChars, (b \div 16) + 1) \o CharAt(HexChars, (b % 16) + 1)]

PercentByte(b) == PercentTable[b]

\* urlencoding::encode: every byte but the unreserved ones becomes %XX.
RECURSIVE UrlEncode(_)
UrlEncode(s) ==
    IF Len(s) = 0 THEN ""
    ELSE IF Len(s) = 1 THEN (IF IsUnreserved(s) THEN s ELSE PercentByte(ByteOf(s)))
    ELSE UrlEncode(SubSeq(s, 1, Len(s) \div 2)) \o UrlEncode(StrFrom(s, (Len(s) \div 2) + 1))

\* i64::to_string of a number >= 0
RECURSIVE I64ToString(_)
I64ToString(n) ==
    IF n < 10 THEN CharAt(DigitChars, n + 1)
    ELSE I64ToString(n \div 10) \o CharAt(DigitChars, (n % 10) + 1)

\* The number a string of decimal digits writes, -1 when it is no such string.
RECURSIVE ParseDigits(_, _)
ParseDigits(s, acc) ==
    IF s = "" THEN acc
    ELSE IF CharAt(s, 1) \notin DigitSet THEN -1
    ELSE ParseDigits(StrFrom(s, 2), 10 * acc + Find(DigitChars, CharAt(s, 1)) - 1)

ParseInt(s) == IF s = "" THEN -1 ELSE ParseDigits(s, 0)

-----------------------------------------------------------------------------
(* Option and Result.                                                      *)

\* Option<T>: None is the empty tuple, Some(x) the tuple of x alone.
None == <<>>
Some(x) == <<x>>
IsSome(o) == o # <<>>
Unwrap(o) == o[1]
\* Option::get_or_insert(default), read back
GetOrInsert(o, default) == IF IsSome(o) THEN o[1] ELSE default

Ok(v) == [tag |-> "Ok", value |-> <<v>>, err |-> "none", status |-> 0]
Err(e) == [tag |-> "Err", value |-> <<>>, err |-> e, status |-> 0]
\* An error that carries a status code: InvalidHttpResponse(StatusCode)
ErrStatus(e, code) == [tag |-> "Err", value |-> <<>>, err |-> e, status |-> code]
\* The result of a call that awaits the transport.
Pending == [tag |-> "Pending", value |-> <<>>, err |-> "none", status |-> 0]
\* An unwrap() of an Err or a None: the thread panics.
Panic == [tag |-> "Panic", value |-> <<>>, err |-> "panic", status |-> 0]
IsOk(r) == r.tag = "Ok"

-----------------------------------------------------------------------------
(* NotificationHubClient::from_connection_string                           *)

NoFields == [host_name |-> None, sas_key_name |-> None, sas_key_value |-> None]

\* if parts.len() != 3
WrongPartCount_Fewer(parts) == Len(parts) < SegmentCount
WrongPartCount(parts) == Len(parts) # SegmentCount

\* The body of the loop over the parts: a part without '=' is skipped; the
\* others set every field whose key they contain to the text after their
\* first '='.
ScanPart(val, f) ==
    IF Find(val, "=") = 0 THEN f
    ELSE LET start == Find(val, "=") + 1
             f1 == IF Contains(val, "Endpoint=")
                   THEN [f EXCEPT !.host_name = Some(StrFrom(val, start))] ELSE f
             f2 == IF Contains(val, "SharedAccessKeyName=")
                   THEN [f1 EXCEPT !.sas_key_name = Some(StrFrom(val, start))] ELSE f1
         IN IF Contains(val, "SharedAccessKey=")
            THEN [f2 EXCEPT !.sas_key_value = Some(StrFrom(val, start))] ELSE f2

\* for val in parts.iter(), left to right: a later part overwrites an earlier.
RECURSIVE ScanParts_StopAtKey(_, _)
ScanParts_StopAtKey(parts, f) ==
    IF parts = <<>> THEN f
    ELSE IF Contains(Head(parts), "SharedAccessKey=") THEN ScanPart(Head(parts), f)
    ELSE ScanParts_StopAtKey(Tail(parts), ScanPart(Head(parts), f))
RECURSIVE ScanParts(_, _)
ScanParts(parts, f) ==
    IF parts = <<>> THEN f ELSE ScanParts(Tail(parts), ScanPart(Head(parts), f))

\* Self { hub_name, host_name, token_provider: SasTokenProvider { .. } }
NewClient(hub_name, host_name, sas_key_name, sas_key_value) ==
    [hub_name |-> hub_name,
     host_name |-> host_name,
     token_provider |-> [sas_key_name |-> sas_key_name, sas_key_value |-> sas_key_value]]

\* The three ok_or(..)? in their order, then the client.
BuildClient_KeyFirst(f, hub_name) ==
    IF ~IsSome(f.sas_key_value) THEN Err("FailedToGetPrimaryKey")
    ELSE IF ~IsSome(f.sas_key_name) THEN Err("FailedToGetSharedAccessKey")
    ELSE IF ~IsSome(f.host_name) THEN Err("FailedToGetHostname")
    ELSE Ok(NewClient(hub_name, Unwrap(f.host_name),
                  Unwrap(f.sas_key_name), Unwrap(f.sas_key_value)))
BuildClient(f, hub_name) ==
    IF ~IsSome(f.host_name) THEN Err("FailedToGetHostname")
    ELSE IF ~IsSome(f.sas_key_name) THEN Err("FailedToGetSharedAccessKey")
    ELSE IF ~IsSome(f.sas_key_value) THEN Err("FailedToGetPrimaryKey")
    ELSE Ok(NewClient(hub_name, Unwrap(f.host_name),
                  Unwrap(f.sas_key_name), Unwrap(f.sas_key_value)))

FromConnectionString(connection_string, hub_name) ==
    LET parts == Split(connection_string, ";")
    IN IF WrongPartCount(parts) THEN Err("InvalidError")
       ELSE BuildClient(ScanParts(parts, NoFields), hub_name)

-----------------------------------------------------------------------------
(* SasTokenProvider::generate_sas_token                                    *)

\* Two hexadecimal digits for each character of a string.
RECURSIVE HexOf(_)
HexOf(s) ==
    IF Len(s) = 0 THEN ""
    ELSE IF Len(s) = 1 THEN StrFrom(PercentByte(ByteOf(s)), 2)
    ELSE HexOf(SubSeq(s, 1, Len(s) \div 2)) \o HexOf(StrFrom(s, (Len(s) \div 2) + 1))

\* HmacSHA256::new_from_slice(key): HMAC takes a key of any length, the empty
\* one included, so the InvalidLength error never arises.
HmacKeyUsable(key) == TRUE

\* base64encode(HMAC-SHA256(key, message)), taken as a perfect MAC: a text
\* over the base64 alphabet that is different for every (key, message).
Base64Hmac(key, message) == HexOf(key) \o "/" \o HexOf(message) \o "="

\* expiry_date = Utc::now() + Duration::hours(1), as whole seconds
ExpirySeconds_Hourly(utc_now) == ((utc_now \div TokenLifetime) + 1) * TokenLifetime
ExpirySeconds(utc_now) == utc_now + TokenLifetime

\* generate_sas_token(&self, target_url), with the clock it reads.
GenerateSasToken(provider, target_url, utc_now) ==
    LET url == ToLowercase(target_url)
        encoded_url == UrlEncode(url)
        expiry_date_seconds == I64ToString(ExpirySeconds(utc_now))
        signature_string == encoded_url \o "\n" \o expiry_date_seconds
    IN IF ~HmacKeyUsable(provider.sas_key_value)
       THEN Err("GenerateSasTokenError")
       ELSE Ok("SharedAccessSignature sr=" \o encoded_url
               \o "&sig=" \o UrlEncode(Base64Hmac(provider.sas_key_value, signature_string))
               \o "&se=" \o expiry_date_seconds
               \o "&skn=" \o provider.sas_key_name)

-----------------------------------------------------------------------------
(* hyper / http: header names and values, requests.                        *)

TokenSet == UpperSet \cup LowerSet \cup DigitSet \cup CharsOf("!#$%&'*+-.^_|~")

\* HeaderName::from_str accepts a non-empty text of token characters.
IsHeaderName(s) ==
    /\ s # ""
    /\ \A i \in 1..Len(s) : CharAt(s, i) \in TokenSet

\* HeaderValue::from_str accepts printable ASCII, the space and the tab.
IsHeaderValue(s) ==
    \A i \in 1..Len(s) : CharAt(s, i) \in PrintableSet \cup {"\t"}

\* Request::post(uri) .. body(..).unwrap(): the builder keeps the error of a
\* text that is no URI, and the unwrap panics on it. A URI here is a
\* non-empty text without space or control character.
IsUri(s) ==
    /\ s # ""
    /\ \A i \in 1..Len(s) : CharAt(s, i) \in PrintableSet \ {" "}

\* HeaderName::from_str(&name).unwrap(): the name in lower case.
HeaderName(name) == ToLowercase(name)

\* The headers of a request are the (name, value) pairs in the order
\* Builder::header appended them; a name may occur more than once.
HeaderValues(headers, name) ==
    {headers[i][2] : i \in {j \in 1..Len(headers) : headers[j][1] = name}}

HasHeader(headers, name) == HeaderValues(headers, name) # {}

-----------------------------------------------------------------------------
(* serde_json over Installation and InstallationPatch.                     *)

RECURSIVE JsonStrings(_)
JsonStrings(list) ==
    IF list = <<>> THEN ""
    ELSE IF Len(list) = 1 THEN "\"" \o list[1] \o "\""
    ELSE "\"" \o list[1] \o "\"," \o JsonStrings(Tail(list))

JsonBool(b) == IF b THEN "true" ELSE "false"

\* serde_json::to_string(&installation), #[serde(rename_all = "camelCase")];
\* the installations of the model have no template.
InstallationToJson(installation) ==
    "{\"installationId\":\"" \o installation.installation_id
    \o "\",\"userId\":\"" \o installation.user_id
    \o "\",\"lastActiveOn\":\"" \o installation.last_active_on
    \o "\",\"expirationTime\":\"" \o installation.expiration_time
    \o "\",\"lastUpdate\":\"" \o installation.last_update
    \o "\",\"platform\":\"" \o installation.platform
    \o "\",\"pushChannel\":\"" \o installation.push_channel
    \o "\",\"expiredPushChannel\":" \o JsonBool(installation.expired_push_channel)
    \o ",\"tags\":[" \o JsonStrings(installation.tags)
    \o "],\"templates\":{}}"

PatchToJson(patch) ==
    "{\"op\":\"" \o patch.op \o "\",\"path\":\"" \o patch.path
    \o "\",\"value\":\"" \o patch.value \o "\"}"

\* serde_json::to_string(&patches)
RECURSIVE PatchObjects(_)
PatchObjects(patches) ==
    IF patches = <<>> THEN ""
    ELSE IF Len(patches) = 1 THEN PatchToJson(patches[1])
    ELSE PatchToJson(patches[1]) \o "," \o PatchObjects(Tail(patches))

PatchesToJson(patches) == "[" \o PatchObjects(patches) \o "]"

Installation(id, tags) ==
    [installation_id |-> id, user_id |-> "user-1", last_active_on |-> "",
     expiration_time |-> "", last_update |-> "", platform |-> "apns",
     push_channel |-> "dev-1", expired_push_channel |-> FALSE, tags |-> tags]

Installations == {Installation("i-1", <<"A">>), Installation("i-2", <<>>)}

\* serde_json::from_reader: the installation a document writes, an error for
\* a text that is no document of an installation.
InstallationFromJson(text) ==
    IF \E i \in Installations : InstallationToJson(i) = text
    THEN Ok(CHOOSE i \in Installations : InstallationToJson(i) = text)
    ELSE Err("JsonSerializationError")

-----------------------------------------------------------------------------
(* The requests the operations build.                                      *)

\* self.token_provider.generate_sas_token(&self.host_name)
AuthorizationToken_Shared(c, uri, utc_now) ==
    GenerateSasToken(c.token_provider, c.host_name,
                     Min({utc_now} \cup {calls[q].at : q \in {r \in DOMAIN calls :
                                                         calls[r].pc = "awaiting"}}))
AuthorizationToken_OverUri(c, uri, utc_now) ==
    GenerateSasToken(c.token_provider, uri, utc_now)
AuthorizationToken(c, uri, utc_now) ==
    GenerateSasToken(c.token_provider, c.host_name, utc_now)

HttpsHost(c) == Replace(c.host_name, "sb://", "https://")

\* The uri of send_notification: direct=true with a device token only.
MessagesUri_NeverDirect(c, device_token) ==
    HttpsHost(c) \o "/" \o c.hub_name \o "/messages?api-version=" \o API_VERSION
MessagesUri(c, device_token) ==
    HttpsHost(c) \o "/" \o c.hub_name \o "/messages?api-version=" \o API_VERSION
    \o (IF IsSome(device_token) THEN "&direct=true" ELSE "")

InstallationUri(c, installation_id) ==
    HttpsHost(c) \o "/" \o c.hub_name \o "/installations/" \o installation_id
    \o "?api-version=" \o API_VERSION

\* An Ok request when every unwrap on the way succeeds, the error of the
\* token otherwise; `valid` gathers what the unwraps need.
Built(valid, sas_token, request) ==
    IF ~valid.before_token THEN Panic
    ELSE IF ~IsOk(sas_token) THEN sas_token
    ELSE IF ~(IsHeaderValue(Unwrap(sas_token.value)) /\ valid.after_token) THEN Panic
    ELSE Ok(request)

\* send_notification up to client.request(request): `hdrs` is
\* request_message.headers in the order the HashMap yields its entries.
SendNotificationRequest(c, request_message, hdrs, device_token, tag_expression, utc_now) ==
    LET uri == MessagesUri(c, device_token)
        sas_token == AuthorizationToken(c, uri, utc_now)
        valid ==
            [before_token |->
                 \A i \in 1..Len(hdrs) : IsHeaderName(hdrs[i][1]) /\ IsHeaderValue(hdrs[i][2]),
             after_token |->
                 /\ IsHeaderValue(request_message.content_type)
                 /\ IsHeaderValue(request_message.platform)
                 /\ (IsSome(device_token) => IsHeaderValue(Unwrap(device_token)))
                 /\ (IsSome(tag_expression) => IsHeaderValue(Unwrap(tag_expression)))
                 /\ IsUri(uri)]
        headers ==
            [i \in 1..Len(hdrs) |-> <<HeaderName(hdrs[i][1]), hdrs[i][2]>>]
            \o <<<<"authorization", GetOrInsert(sas_token.value, "")>>,
                 <<"content-type", request_message.content_type>>,
                 <<"servicebusnotification-format", request_message.platform>>>>
            \o (IF IsSome(device_token)
                THEN <<<<"servicebusnotification-devicehandle", Unwrap(device_token)>>>>
                ELSE <<>>)
            \o (IF IsSome(tag_expression)
                THEN <<<<"servicebusnotification-tags", Unwrap(tag_expression)>>>>
                ELSE <<>>)
    IN Built(valid, sas_token,
             [method |-> "POST", uri |-> uri, headers |-> headers,
              body |-> request_message.message])

\* tags.join("||")
TagExpression_TrailingSeparator(tags) == Join(tags \o <<"">>, "||")
TagExpression(tags) == Join(tags, "||")

\* get_installation up to client.request(request)
GetInstallationRequest(c, installation_id, utc_now) ==
    LET uri == InstallationUri(c, installation_id)
        sas_token == AuthorizationToken(c, uri, utc_now)
    IN Built([before_token |-> TRUE, after_token |-> IsUri(uri)], sas_token,
             [method |-> "GET", uri |-> uri,
              headers |-> <<<<"authorization", GetOrInsert(sas_token.value, "")>>>>,
              body |-> ""])

\* upsert_installation and patch_installation up to client.request(request)
InstallationWriteRequest(c, method, installation_id, json, utc_now) ==
    LET uri == InstallationUri(c, installation_id)
        sas_token == AuthorizationToken(c, uri, utc_now)
    IN Built([before_token |-> TRUE, after_token |-> IsUri(uri)], sas_token,
             [method |-> method, uri |-> uri,
              headers |-> <<<<"authorization", GetOrInsert(sas_token.value, "")>>,
                            <<"content-type", "application/json">>>>,
              body |-> json])

-----------------------------------------------------------------------------
(* The responses the operations interpret. A reply is a status, the set of *)
(* its (name, value) headers, of visible ASCII values, and the body, None  *)
(* when reading it failed.                                                 *)

\* res.headers().contains_key(name), then res.headers()[name].to_str()
ResponseHeader(reply, name) ==
    IF \E h \in reply.headers : h[1] = name
    THEN Some((CHOOSE h \in reply.headers : h[1] = name)[2])
    ELSE None

\* res.status() != StatusCode::CREATED
SendStatusOk_AnySuccess(status) == status \in {StatusOk, StatusCreated}
SendStatusOk(status) == status = StatusCreated

\* res.status() != StatusCode::OK
InstallationStatusOk(status) == status = StatusOk

\* The NotificationResponse of a 201 reply.
NotificationResponse_HeadersRequired(reply) ==
    IF IsSome(ResponseHeader(reply, "trackingid"))
       /\ IsSome(ResponseHeader(reply, "x-ms-correlation-request-id"))
    THEN Ok([tracking_id |-> Unwrap(ResponseHeader(reply, "trackingid")),
             correlation_id |-> Unwrap(ResponseHeader(reply, "x-ms-correlation-request-id"))])
    ELSE Err("HttpRequestError")
NotificationResponse(reply) ==
    Ok([tracking_id |-> GetOrInsert(ResponseHeader(reply, "trackingid"), ""),
        correlation_id |->
            GetOrInsert(ResponseHeader(reply, "x-ms-correlation-request-id"), "")])

\* send_notification after client.request(request).await
SendNotificationResponse(reply) ==
    IF ~SendStatusOk(reply.status) THEN ErrStatus("InvalidHttpResponse", reply.status)
    ELSE NotificationResponse(reply)

\* get_installation after client.request(request).await
GetInstallationResponse(reply) ==
    IF ~InstallationStatusOk(reply.status)
    THEN ErrStatus("InvalidHttpResponse", reply.status)
    ELSE IF ~IsSome(reply.body) THEN Err("HttpRequestError")
    ELSE InstallationFromJson(Unwrap(reply.body))

\* upsert_installation and patch_installation after client.request(request).await
InstallationWriteResponse(reply) ==
    IF ~InstallationStatusOk(reply.status)
    THEN ErrStatus("InvalidHttpResponse", reply.status)
    ELSE Ok([content_location |->
                 GetOrInsert(ResponseHeader(reply, "content-location"), "")])

-----------------------------------------------------------------------------
(* The inputs of the parser.                                               *)

\* The pieces connection strings are put together from: the three well-formed
\* ones, a key without value, a key the parser does not know, a key that ends
\* in the text of a known one, and the empty piece (what follows a trailing
\* ';').
Segments ==
    { "Endpoint=sb://Ns.example/",
      "SharedAccessKeyName=Root",
      "SharedAccessKey=c2Vj",
      "Endpoint=",
      "EntityPath=hub",
      "OldEndpoint=sb://old/",
      "" }

\* Every connection string of at most MaxSegments pieces; no piece at all is
\* the empty string.
ConnectionStrings ==
    {Join(parts, ";") : parts \in UNION {[1..n -> Segments] : n \in 0..MaxSegments}}

HubNames == {"hub"}

-----------------------------------------------------------------------------
(* State.                                                                  *)
(*   client  the constructed NotificationHubClient, None before            *)
(*   parsed  the last call of from_connection_string: its input and result *)
(*   now     the clock, in whole seconds since the epoch                   *)
(*   calls   the operation calls on the client, each with its position     *)
(*   wire    for each call, the requests it handed to the transport        *)

Callers == 1..MaxCalls

IdleCall == [pc |-> "idle"]

Init ==
    /\ client = None
    /\ parsed = None
    /\ now = 0
    /\ calls = [p \in Callers |-> IdleCall]
    /\ wire = [p \in Callers |-> <<>>]

\* from_connection_string(connection_string, hub_name): a pure function of its
\* arguments, called once; the client exists if it returned Ok.
Construct(connection_string, hub_name) ==
    /\ parsed = None
    /\ LET result == FromConnectionString(connection_string, hub_name)
       IN /\ parsed' = Some([connection_string |-> connection_string,
                             hub_name |-> hub_name,
                             result |-> result])
          /\ client' = result.value
    /\ UNCHANGED <<now, calls, wire>>

\* A second passes on the clock chrono::Utc::now() reads.
Tick ==
    /\ now < MaxTime
    /\ now' = now + 1
    /\ UNCHANGED <<client, parsed, calls, wire>>

\* A call of an operation runs to its first await: it builds its request
\* with the clock as it reads it and hands it to the transport, returns the
\* error of the token, or panics in an unwrap.
Start(p, op, args, built) ==
    /\ IsSome(client)
    /\ calls[p].pc = "idle"
    \* callers are alike: they are numbered in the order they start
    /\ \A q \in Callers : q < p => calls[q].pc # "idle"
    /\ calls' = [calls EXCEPT ![p] =
           [pc |-> IF built.tag = "Ok" THEN "awaiting"
                   ELSE IF built.tag = "Panic" THEN "panicked" ELSE "returned",
            op |-> op, args |-> args, at |-> now,
            reply |-> None,
            result |-> IF built.tag = "Ok" THEN Pending ELSE built]]
    /\ wire' = [wire EXCEPT ![p] = @ \o built.value]
    /\ UNCHANGED <<client, parsed, now>>

\* The orders in which a HashMap may yield its entries.
Orderings(map) ==
    {seq \in [1..Cardinality(map) -> map] :
        \A i, j \in 1..Cardinality(map) : i # j => seq[i] # seq[j]}

SendDirectNotification(p, request_message, hdrs, device_token) ==
    Start(p, "send_direct_notification",
          [request_message |-> request_message, device_token |-> device_token],
          SendNotificationRequest(Unwrap(client), request_message, hdrs,
                                  Some(device_token), None, now))

SendTaggedNotification(p, request_message, hdrs, tags) ==
    Start(p, "send_tagged_notification",
          [request_message |-> request_message, tags |-> tags],
          SendNotificationRequest(Unwrap(client), request_message, hdrs,
                                  None, Some(TagExpression(tags)), now))

SendTagExpressionNotification(p, request_message, hdrs, tag_expression) ==
    Start(p, "send_tag_expression_notification",
          [request_message |-> request_message, tag_expression |-> tag_expression],
          SendNotificationRequest(Unwrap(client), request_message, hdrs,
                                  None, Some(tag_expression), now))

GetInstallation(p, installation_id) ==
    Start(p, "get_installation", [installation_id |-> installation_id],
          GetInstallationRequest(Unwrap(client), installation_id, now))

UpsertInstallation(p, installation) ==
    Start(p, "upsert_installation", [installation |-> installation],
          InstallationWriteRequest(Unwrap(client), "PUT", installation.installation_id,
                                   InstallationToJson(installation), now))

PatchInstallation(p, installation_id, patches) ==
    Start(p, "patch_installation",
          [installation_id |-> installation_id, patches |-> patches],
          InstallationWriteRequest(Unwrap(client), "PATCH", installation_id,
                                   PatchesToJson(patches), now))

SendOps ==
    {"send_direct_notification", "send_tagged_notification",
     "send_tag_expression_notification"}
WriteOps == {"upsert_installation", "patch_installation"}

\* The rest of an operation, after the transport answered its request.
Response(op, reply) ==
    IF op \in SendOps THEN SendNotificationResponse(reply)
    ELSE IF op = "get_installation" THEN GetInstallationResponse(reply)
    ELSE InstallationWriteResponse(reply)

TransportReply(p, reply) ==
    /\ calls[p].pc = "awaiting"
    /\ calls' = [calls EXCEPT ![p].pc = "returned",
                              ![p].reply = Some(reply),
                              ![p].result = Response(calls[p].op, reply)]
    /\ UNCHANGED <<client, parsed, now, wire>>

\* client.request(request).await fails: map_err(HttpRequestError)?
TransportError(p) ==
    /\ calls[p].pc = "awaiting"
    /\ calls' = [calls EXCEPT ![p].pc = "returned",
                              ![p].result = Err("HttpRequestError")]
    /\ UNCHANGED <<client, parsed, now, wire>>

-----------------------------------------------------------------------------
(* The inputs of the operations.                                           *)

NotificationRequest(headers, content_type) ==
    [headers |-> headers, message |-> "hello", content_type |-> content_type,
     platform |-> "apple"]

PlainRequest ==
    NotificationRequest({<<"apns-push-type", "alert">>, <<"apns-priority", "10">>},
                        "application/json;charset=utf-8")

SimpleRequest == NotificationRequest({<<"apns-priority", "10">>}, "text/plain")

\* Requests with the headers a caller may supply: platform headers, a header
\* of the name the client itself uses, a name that is no header name, and a
\* content type that is no header value.
NotificationRequests ==
    { PlainRequest,
      NotificationRequest({<<"ServiceBusNotification-DeviceHandle", "dev-9">>}, "text/plain"),
      NotificationRequest({<<"ServiceBusNotification-Tags", "Z">>}, "text/plain"),
      NotificationRequest({<<"bad name", "x">>}, "text/plain"),
      NotificationRequest({}, "text\nplain") }

DeviceTokens == {"dev-1"}
TagNames == {"A", "B", "C"}
TagLists == UNION {[1..n -> TagNames] : n \in 0..MaxTags}
TagExpressions == {"(A && B) || !C"}
InstallationIds == {"i-1", "i-2"}
PatchLists == {<<>>, <<[op |-> "add", path |-> "/tags", value |-> "B"]>>}

Statuses == {StatusOk, StatusCreated, 202, 404}

Reply(status, headers, body) == [status |-> status, headers |-> headers, body |-> body]

SendReplyHeaders == {<<"trackingid", "t-1">>, <<"x-ms-correlation-request-id", "c-1">>}
WriteReplyHeaders == {<<"content-location", "/hub/installations/i-1">>}

SendReplies ==
    {Reply(StatusCreated, h, Some("")) : h \in SUBSET SendReplyHeaders}
    \cup {Reply(s, SendReplyHeaders, Some("")) : s \in Statuses}

WriteReplies ==
    {Reply(StatusOk, h, Some("")) : h \in SUBSET WriteReplyHeaders}
    \cup {Reply(s, WriteReplyHeaders, Some("")) : s \in Statuses}

GetReplies ==
    {Reply(StatusOk, {}, Some(InstallationToJson(i))) : i \in Installations}
    \cup {Reply(StatusOk, {}, Some("{\"installationId\":\"i-1\"}")),
          Reply(StatusOk, {}, None)}
    \cup {Reply(s, {}, Some(InstallationToJson(Installation("i-1", <<"A">>)))) : s \in Statuses}

\* The replies of a service that accepts every request.
ExpectedReplies ==
    { Reply(StatusCreated, SendReplyHeaders, Some("")),
      Reply(StatusOk, WriteReplyHeaders, Some("")),
      Reply(StatusOk, {}, Some(InstallationToJson(Installation("i-1", <<"A">>)))) }

\* The connection strings clients are constructed from.
ClientConnectionStrings ==
    { "Endpoint=sb://Ns.example/;SharedAccessKeyName=Root;SharedAccessKey=c2Vj",
      "SharedAccessKey=a2V5;SharedAccessKeyName=Listen;Endpoint=sb://hub2.example" }

-----------------------------------------------------------------------------
(* Specifications.                                                         *)

\* A step of a call of the client by one of the callers P.
CallStep(P, Requests, Tags, Replies) ==
    \/ \E p \in P, r \in Requests, t \in DeviceTokens :
           \E hdrs \in Orderings(r.headers) : SendDirectNotification(p, r, hdrs, t)
    \/ \E p \in P, r \in Requests, tags \in Tags :
           \E hdrs \in Orderings(r.headers) : SendTaggedNotification(p, r, hdrs, tags)
    \/ \E p \in P, r \in Requests, e \in TagExpressions :
           \E hdrs \in Orderings(r.headers) : SendTagExpressionNotification(p, r, hdrs, e)
    \/ \E p \in P, id \in InstallationIds : GetInstallation(p, id)
    \/ \E p \in P, i \in Installations : UpsertInstallation(p, i)
    \/ \E p \in P, id \in InstallationIds, patches \in PatchLists :
           PatchInstallation(p, id, patches)
    \/ \E p \in P :
           \E reply \in (IF calls[p].pc # "awaiting" THEN {}
                         ELSE IF calls[p].op \in SendOps THEN Replies \cap SendReplies
                         ELSE IF calls[p].op \in WriteOps THEN Replies \cap WriteReplies
                         ELSE Replies \cap GetReplies) :
               TransportReply(p, reply)

\* The transport fails the request of one of the callers P.
FailStep(P) == \E p \in P : TransportError(p)

\* Calls in flight at the same time on one client, with a service that
\* accepts every request: any interleaving of the callers' steps, each caller
\* with one input for each operation.
Next ==
    \/ \E hub \in HubNames :
           Construct("Endpoint=sb://Ns.example/;SharedAccessKeyName=Root;SharedAccessKey=c2Vj", hub)
    \/ Tick
    \/ CallStep(Callers, {SimpleRequest}, {<<"A", "B">>}, ExpectedReplies)

Spec == Init /\ [][Next]_vars

\* One call at a time, on every input of the bounds.
NextCall ==
    \/ \E cs \in ClientConnectionStrings, hub \in HubNames : Construct(cs, hub)
    \/ Tick
    \/ CallStep({Min(Callers)}, NotificationRequests, TagLists,
                SendReplies \cup WriteReplies \cup GetReplies)
    \/ FailStep({Min(Callers)})

SpecCall == Init /\ [][NextCall]_vars

\* The parser alone, on every connection string of the bounds.
NextParse ==
    /\ parsed = None
    /\ \E cs \in ConnectionStrings, hub \in HubNames : Construct(cs, hub)

SpecParse == Init /\ [][NextParse]_vars

-----------------------------------------------------------------------------
(* Claims about the parser, checked under SpecParse.                       *)

\* The number of ';'-separated segments of a string: one more than its ';'.
SegmentsIn(s) == Cardinality(Occurrences(s, ";")) + 1

\* Some segment of the string holds the text of the key.
Recognized(s, key) ==
    \E i \in 1..Len(Split(s, ";")) : Contains(Split(s, ";")[i], key)

ParsedInput == Unwrap(parsed).connection_string
ParsedResult == Unwrap(parsed).result

\* C6: a connection string that splits on ';' into a number of segments other
\* than 3 (the empty string and a trailing ';' included) fails with
\* InvalidError, and no client is constructed.
C6_WrongSegmentCountIsInvalid ==
    (IsSome(parsed) /\ SegmentsIn(ParsedInput) # 3)
        => (ParsedResult = Err("InvalidError") /\ client = None)

C6_Witness ==
    /\ IsSome(parsed)
    /\ ParsedInput = "Endpoint=sb://Ns.example/;SharedAccessKeyName=Root;SharedAccessKey=c2Vj;"
    /\ ParsedResult = Err("InvalidError")
    /\ client = None

\* C7: parse reports one error kind in a fixed priority: InvalidError when the
\* segment count is not 3, else FailedToGetHostname when no host was
\* recognized, else FailedToGetSharedAccessKey when no key name was, else
\* FailedToGetPrimaryKey when no key secret was, and Ok only with all three.
C7_ErrorPriority ==
    IsSome(parsed) =>
        ParsedResult.tag \o ":" \o ParsedResult.err =
            IF SegmentsIn(ParsedInput) # 3 THEN "Err:InvalidError"
            ELSE IF ~Recognized(ParsedInput, "Endpoint=") THEN "Err:FailedToGetHostname"
            ELSE IF ~Recognized(ParsedInput, "SharedAccessKeyName=")
            THEN "Err:FailedToGetSharedAccessKey"
            ELSE IF ~Recognized(ParsedInput, "SharedAccessKey=")
            THEN "Err:FailedToGetPrimaryKey"
            ELSE "Ok:none"

\* Three segments with neither host nor key name: the host is reported.
C7_Witness ==
    /\ IsSome(parsed)
    /\ ParsedInput = ";EntityPath=hub;SharedAccessKey=c2Vj"
    /\ ParsedResult = Err("FailedToGetHostname")

\* The six orders of three segments.
Permutations3 == {p \in [1..3 -> 1..3] : \A i, j \in 1..3 : i # j => p[i] # p[j]}

Permuted(parts, p) == [i \in 1..3 |-> parts[p[i]]]

\* Each of the three keys occurs exactly once in a string of three segments.
EachKeyOnce(s) ==
    /\ SegmentsIn(s) = 3
    /\ \A key \in {"Endpoint=", "SharedAccessKeyName=", "SharedAccessKey="} :
           Cardinality(Occurrences(s, key)) = 1

\* C8: a connection string of 3 segments in which each recognized key appears
\* once parses, and its 6 permutations parse to the same credentials.
C8_OrderIrrelevant ==
    (IsSome(parsed) /\ EachKeyOnce(ParsedInput)) =>
        /\ IsOk(ParsedResult)
        /\ \A p \in Permutations3 :
               FromConnectionString(
                   Join(Permuted(Split(ParsedInput, ";"), p), ";"),
                   Unwrap(parsed).hub_name) = ParsedResult

C8_Witness ==
    /\ IsSome(parsed)
    /\ ParsedInput = "SharedAccessKey=c2Vj;Endpoint=sb://Ns.example/;SharedAccessKeyName=Root"
    /\ IsOk(ParsedResult)
    /\ Unwrap(ParsedResult.value).host_name = "sb://Ns.example/"
    /\ Unwrap(ParsedResult.value).token_provider.sas_key_name = "Root"
    /\ Unwrap(ParsedResult.value).token_provider.sas_key_value = "c2Vj"

\* C9: the credentials of a successful parse have three non-empty fields.
C9_FieldsNonEmpty ==
    (IsSome(parsed) /\ IsOk(ParsedResult)) =>
        /\ Unwrap(ParsedResult.value).host_name # ""
        /\ Unwrap(ParsedResult.value).token_provider.sas_key_name # ""
        /\ Unwrap(ParsedResult.value).token_provider.sas_key_value # ""

-----------------------------------------------------------------------------
(* Claims about the operations.                                            *)

\* The value of a field of a token: the text from the key to the next '&'.
FieldOf(token, key) ==
    LET rest == StrFrom(token, Find(token, key) + Len(key))
    IN IF Find(rest, "&") = 0 THEN rest ELSE SubSeq(rest, 1, Find(rest, "&") - 1)

\* The calls that handed a request to the transport, and the request.
Requested == {p \in Callers : wire[p] # <<>>}
RequestOf(p) == wire[p][1]
TokenOf(p) == CHOOSE v \in HeaderValues(RequestOf(p).headers, "authorization") : TRUE

\* C1: the request of every operation carries an Authorization header whose
\* value is the token signed over the client's host_name, not over the uri
\* of the request, with the clock the call itself read.
C1_TokenOverResourceHost ==
    \A p \in Requested :
        LET c == Unwrap(client)
            token == GenerateSasToken(c.token_provider, c.host_name, calls[p].at)
        IN /\ IsOk(token)
           /\ Unwrap(token.value) \in HeaderValues(RequestOf(p).headers, "authorization")
           /\ \A v \in HeaderValues(RequestOf(p).headers, "authorization") :
                  /\ FieldOf(v, "sr=") = UrlEncode(ToLowercase(c.host_name))
                  /\ FieldOf(v, "sr=") # UrlEncode(ToLowercase(RequestOf(p).uri))
                  /\ ParseInt(FieldOf(v, "&se=")) = calls[p].at + 3600

C1_Witness ==
    \E p \in Requested :
        /\ calls[p].op = "get_installation"
        /\ calls[p].at > 0
        /\ RequestOf(p).uri = "https://Ns.example//hub/installations/i-1?api-version=2017-04"
        /\ FieldOf(TokenOf(p), "sr=") = "sb%3A%2F%2Fns.example%2F"

\* C2: the se= field of a token is the time of its call plus 3600 seconds,
\* and two tokens of the same client with different expiry are different.
C2_ExpiryAnHourAhead ==
    /\ \A p \in Requested :
           ParseInt(FieldOf(TokenOf(p), "&se=")) = calls[p].at + 3600
    /\ \A p, q \in Requested :
           calls[p].at # calls[q].at => TokenOf(p) # TokenOf(q)

C2_Witness ==
    \E p, q \in Requested :
        /\ calls[p].at = 0 /\ FieldOf(TokenOf(p), "&se=") = "3600"
        /\ calls[q].at = 1 /\ FieldOf(TokenOf(q), "&se=") = "3601"

\* The status an operation takes for success.
ExpectedStatus(op) == IF op \in SendOps THEN 201 ELSE 200

\* The calls the transport answered.
Answered == {p \in Callers : calls[p].pc = "returned" /\ IsSome(calls[p].reply)}
ReplyOf(p) == Unwrap(calls[p].reply)

\* C3: after a reply with a status other than the expected one (201 for the
\* sends, 200 for the installation operations) the call returns
\* InvalidHttpResponse with that status, and its request was the only one.
C3_UnexpectedStatus ==
    \A p \in Answered :
        ReplyOf(p).status # ExpectedStatus(calls[p].op) =>
            /\ calls[p].result = ErrStatus("InvalidHttpResponse", ReplyOf(p).status)
            /\ Len(wire[p]) = 1

C3_Witness ==
    \E p \in Answered :
        /\ calls[p].op = "send_direct_notification"
        /\ ReplyOf(p).status = 200
        /\ calls[p].result = ErrStatus("InvalidHttpResponse", 200)
        /\ Len(wire[p]) = 1

DeviceHandle == "servicebusnotification-devicehandle"
TagsHeader == "servicebusnotification-tags"

\* The values the caller itself supplied for a header of that name.
CallerValues(p, name) ==
    {h[2] : h \in {g \in calls[p].args.request_message.headers : HeaderName(g[1]) = name}}

\* C4 as stated: a direct send has the device-handle header set to the device
\* token and direct=true, and no tag-expression header; a tagged or a
\* tag-expression send has neither the device-handle header nor direct=true.
C4_Original ==
    \A p \in Requested :
        /\ calls[p].op = "send_direct_notification" =>
               /\ calls[p].args.device_token \in HeaderValues(RequestOf(p).headers, DeviceHandle)
               /\ Contains(RequestOf(p).uri, "direct=true")
               /\ ~HasHeader(RequestOf(p).headers, TagsHeader)
        /\ calls[p].op \in {"send_tagged_notification", "send_tag_expression_notification"} =>
               /\ ~HasHeader(RequestOf(p).headers, DeviceHandle)
               /\ ~Contains(RequestOf(p).uri, "direct=true")

\* C4, amended: a direct send has a device-handle header set to the device
\* token and direct=true, and no tag-expression header but one the caller
\* supplied in request.headers; a tagged or a tag-expression send has no
\* direct=true and no device-handle header but one the caller supplied.
C4_DirectAndTaggedHeaders ==
    \A p \in Requested :
        /\ calls[p].op = "send_direct_notification" =>
               /\ calls[p].args.device_token \in HeaderValues(RequestOf(p).headers, DeviceHandle)
               /\ Contains(RequestOf(p).uri, "direct=true")
               /\ HeaderValues(RequestOf(p).headers, TagsHeader) \subseteq CallerValues(p, TagsHeader)
        /\ calls[p].op \in {"send_tagged_notification", "send_tag_expression_notification"} =>
               /\ HeaderValues(RequestOf(p).headers, DeviceHandle)
                      \subseteq CallerValues(p, DeviceHandle)
               /\ ~Contains(RequestOf(p).uri, "direct=true")

\* A tagged send of a request whose caller supplied a device-handle header.
C4_Witness ==
    \E p \in Requested :
        /\ calls[p].op = "send_tagged_notification"
        /\ CallerValues(p, DeviceHandle) = {"dev-9"}
        /\ HeaderValues(RequestOf(p).headers, DeviceHandle) = {"dev-9"}
        /\ ~Contains(RequestOf(p).uri, "direct=true")

\* The last header of a request: the one set last.
LastHeader(request) == request.headers[Len(request.headers)]

\* C5: a tagged send sets the tag-expression header to the tags in their
\* order joined by "||", without leading or trailing separator; a
\* tag-expression send sets it to the caller's expression unchanged.
C5_TagsJoined ==
    \A p \in Requested :
        /\ calls[p].op = "send_tagged_notification" =>
               /\ LastHeader(RequestOf(p))[1] = TagsHeader
               /\ IF calls[p].args.tags = <<>>
                  THEN LastHeader(RequestOf(p))[2] = ""
                  ELSE Split(LastHeader(RequestOf(p))[2], "||") = calls[p].args.tags
        /\ calls[p].op = "send_tag_expression_notification" =>
               LastHeader(RequestOf(p)) = <<TagsHeader, calls[p].args.tag_expression>>

C5_Witness ==
    \E p \in Requested :
        /\ calls[p].op = "send_tagged_notification"
        /\ calls[p].args.tags = <<"A", "B", "C">>
        /\ LastHeader(RequestOf(p)) = <<TagsHeader, "A||B||C">>

ReplyHas(p, name) == \E h \in ReplyOf(p).headers : h[1] = name

\* C10: a 201 reply to a send succeeds, with the empty string for each of
\* trackingid and x-ms-correlation-request-id it lacks; a 200 reply to an
\* upsert or a patch succeeds, with the empty string for a content-location
\* it lacks.
C10_AbsentHeadersAreEmpty ==
    \A p \in Answered :
        /\ (calls[p].op \in SendOps /\ ReplyOf(p).status = 201) =>
               /\ IsOk(calls[p].result)
               /\ ~ReplyHas(p, "trackingid") =>
                      Unwrap(calls[p].result.value).tracking_id = ""
               /\ ~ReplyHas(p, "x-ms-correlation-request-id") =>
                      Unwrap(calls[p].result.value).correlation_id = ""
        /\ (calls[p].op \in WriteOps /\ ReplyOf(p).status = 200) =>
               /\ IsOk(calls[p].result)
               /\ ~ReplyHas(p, "content-location") =>
                      Unwrap(calls[p].result.value).content_location = ""

C10_Witness ==
    \E p \in Answered :
        /\ calls[p].op = "send_tagged_notification"
        /\ ReplyOf(p).status = 201
        /\ ReplyOf(p).headers = {}
        /\ calls[p].result = Ok([tracking_id |-> "", correlation_id |-> ""])

\* The calls that were made, whatever became of them.
Called == {p \in Callers : calls[p].pc # "idle"}

\* A header the caller supplied is malformed: a name or a value of
\* request.headers, the content type or the platform, the device token of a
\* direct send or the tag expression of a tag-expression send.
Malformed(call) ==
    \/ \E h \in call.args.request_message.headers :
           ~IsHeaderName(h[1]) \/ ~IsHeaderValue(h[2])
    \/ ~IsHeaderValue(call.args.request_message.content_type)
    \/ ~IsHeaderValue(call.args.request_message.platform)
    \/ call.op = "send_direct_notification" /\ ~IsHeaderValue(call.args.device_token)
    \/ call.op = "send_tag_expression_notification"
           /\ ~IsHeaderValue(call.args.tag_expression)

\* C11: a send whose caller supplied a malformed header returns a typed
\* failure to its caller, it does not abort, and no request of it reaches the
\* transport.
C11_MalformedHeaderIsTypedFailure ==
    \A p \in Called :
        (calls[p].op \in SendOps /\ Malformed(calls[p])) =>
            /\ calls[p].pc = "returned"
            /\ calls[p].result.tag = "Err"
            /\ wire[p] = <<>>

-----------------------------------------------------------------------------
(* Claims about calls in flight together, checked under Spec.              *)

\* What a call builds from its own arguments, the fields of the client and
\* the clock it read itself: the requests it may hand to the transport, one
\* for each order of its headers, as a list of one request, or of none when
\* the call ends before the transport.
OwnRequests(call) ==
    LET c == Unwrap(client)
        a == call.args
    IN IF call.op = "send_direct_notification"
       THEN {SendNotificationRequest(c, a.request_message, hdrs,
                                     Some(a.device_token), None, call.at).value :
                 hdrs \in Orderings(a.request_message.headers)}
       ELSE IF call.op = "send_tagged_notification"
       THEN {SendNotificationRequest(c, a.request_message, hdrs,
                                     None, Some(TagExpression(a.tags)), call.at).value :
                 hdrs \in Orderings(a.request_message.headers)}
       ELSE IF call.op = "send_tag_expression_notification"
       THEN {SendNotificationRequest(c, a.request_message, hdrs,
                                     None, Some(a.tag_expression), call.at).value :
                 hdrs \in Orderings(a.request_message.headers)}
       ELSE IF call.op = "get_installation"
       THEN {GetInstallationRequest(c, a.installation_id, call.at).value}
       ELSE IF call.op = "upsert_installation"
       THEN {InstallationWriteRequest(c, "PUT", a.installation.installation_id,
                                      InstallationToJson(a.installation), call.at).value}
       ELSE {InstallationWriteRequest(c, "PATCH", a.installation_id,
                                      PatchesToJson(a.patches), call.at).value}

\* Each call hands one request to the transport, and no more.
OneRequestEach ==
    \A p \in Called :
        /\ Len(wire[p]) <= 1
        /\ (calls[p].pc = "awaiting" \/ IsSome(calls[p].reply)) => Len(wire[p]) = 1

\* The step in which a call starts hands over the request of the call itself,
\* with the token of its own reading of the clock, whatever the other calls
\* are doing.
OwnRequestOnly ==
    \A p \in Callers :
        (calls[p].pc = "idle" /\ calls'[p].pc # "idle") =>
            /\ wire'[p] \in OwnRequests(calls'[p])
            /\ \A i \in 1..Len(wire'[p]) :
                   HeaderValues(wire'[p][i].headers, "authorization") =
                       {Unwrap(GenerateSasToken(Unwrap(client).token_provider,
                                                Unwrap(client).host_name,
                                                calls'[p].at).value)}

\* A step leaves the constructed client as it is, touches the call of one
\* caller at most, and leaves what a call was made with and the request it
\* handed over as they are.
OwnStepOnly ==
    /\ IsSome(client) => client' = client
    /\ \A p, q \in Callers : p # q => (calls'[p] = calls[p] \/ calls'[q] = calls[q])
    /\ \A p \in Callers : calls'[p] = calls[p] => wire'[p] = wire[p]
    /\ \A p \in Called :
           /\ wire'[p] = wire[p]
           /\ calls'[p].op = calls[p].op
           /\ calls'[p].args = calls[p].args
           /\ calls'[p].at = calls[p].at

\* C12: under every interleaving of calls on one client, the client's
\* credentials and hub name never change; the request of each call (uri,
\* headers, body, token) is the one its own arguments, the client's fields
\* and its own reading of the clock give, whatever other calls are in
\* flight; and each call hands exactly one request to the transport.
C12_CallsAreIndependent == []OneRequestEach /\ [][OwnRequestOnly /\ OwnStepOnly]_vars

\* Two calls in flight at the same time that read different clocks, each with
\* its one request and its own token.
C12_Witness ==
    \E p, q \in Callers :
        /\ calls[p].pc = "awaiting" /\ calls[q].pc = "awaiting"
        /\ calls[p].at = 0 /\ calls[q].at = 1
        /\ Len(wire[p]) = 1 /\ Len(wire[q]) = 1
        /\ FieldOf(TokenOf(p), "&se=") = "3600"
        /\ FieldOf(TokenOf(q), "&se=") = "3601"

-----------------------------------------------------------------------------
(* Claims about get_installation, checked under SpecCall.                  *)

\* The body of a reply is the document of an installation.
WellFormedPayload(reply) ==
    /\ IsSome(reply.body)
    /\ \E i \in Installations : InstallationToJson(i) = Unwrap(reply.body)

\* C13: for every requested id, when the transport answers get_installation
\* with status 200 and the document of an installation, the call returns an
\* Installation whose installation_id is the requested id.
C13_ReturnsRequestedId ==
    \A p \in Answered :
        (/\ calls[p].op = "get_installation"
         /\ ReplyOf(p).status = 200
         /\ WellFormedPayload(ReplyOf(p))) =>
            /\ IsOk(calls[p].result)
            /\ Unwrap(calls[p].result.value).installation_id = calls[p].args.installation_id

-----------------------------------------------------------------------------
(* Claims about the segments of the parser, checked under SpecParse.       *)

\* A text begins with a prefix.
StartsWith(s, prefix) == Len(prefix) <= Len(s) /\ SubSeq(s, 1, Len(prefix)) = prefix

\* The values of the segments of a string that begin with a key: for each,
\* everything after its first '='.
PrefixValues(s, key) ==
    {StrFrom(Split(s, ";")[i], Find(Split(s, ";")[i], "=") + 1) :
        i \in {j \in 1..Len(Split(s, ";")) : StartsWith(Split(s, ";")[j], key)}}

\* C14: only a segment that begins with "Endpoint=", "SharedAccessKeyName="
\* or "SharedAccessKey=" sets a field, the one of its key, to everything
\* after its first '='; a segment that begins with none of them, or has no
\* '=', sets none. So of three segments none of which begins with a key, the
\* field of that key is missing, and each field of a parsed client is the
\* value of a segment that begins with its key.
C14_PrefixSetsField ==
    (IsSome(parsed) /\ SegmentsIn(ParsedInput) = 3) =>
        /\ PrefixValues(ParsedInput, "Endpoint=") = {} =>
               ParsedResult = Err("FailedToGetHostname")
        /\ IsOk(ParsedResult) =>
               /\ Unwrap(ParsedResult.value).host_name
                      \in PrefixValues(ParsedInput, "Endpoint=")
               /\ Unwrap(ParsedResult.value).token_provider.sas_key_name
                      \in PrefixValues(ParsedInput, "SharedAccessKeyName=")
               /\ Unwrap(ParsedResult.value).token_provider.sas_key_value
                      \in PrefixValues(ParsedInput, "SharedAccessKey=")

====
